---- MODULE Spec2Model ----
(***************************************************************************)
(* Model of the DeFi analytics gateway: the PriceOracle price cache        *)
(* (src/src/utils/priceOracle.js) as driven by the request handlers of     *)
(* src/src/index.js, and the UniswapAnalytics pool-address derivation      *)
(* (the class listed in src/README.md).                                    *)
(*                                                                         *)
(* JavaScript strings are modelled as sequences of one-character strings,  *)
(* so that toLowerCase, toUpperCase, template strings, join and the string *)
(* comparison < are computed character by character.                       *)
(* Node runs one callback at a time: every action below is the code that   *)
(* runs between two awaits.                                                *)
(***************************************************************************)
EXTENDS Integers, Sequences, FiniteSets, TLC

VARIABLES
    cache,      \* PriceOracle.cache: Map from cache key to {price, timestamp}
    now,        \* Date.now(), in milliseconds
    req,        \* the requests being served: one record per request slot
    cleared,    \* history: clearCache() ran and no getPrice call started since
    pool,       \* the UniswapAnalytics call under evaluation: inputs, position
                \* and results
    chain,      \* what the chain holds, as the provider reports it
    search,     \* the getContractCreationBlock call under evaluation
    risk        \* the calculateRiskMetrics call under evaluation

vars == <<cache, now, req, cleared, pool, chain, search, risk>>

---------------------------------------------------------------------------
(* Bounds of the model *)

\* Number of requests the server has in progress at the same time.
MaxRequests == 2
\* The clock advances in steps of cacheTTL / TicksPerTTL milliseconds.
TicksPerTTL == 2
\* The clock stops after MaxTicks steps.
MaxTicks == 3
\* The upstream quotes usd prices 1..MaxPrice.
MaxPrice == 2
\* Longest symbol list of a batch request.
MaxBatch == 3
\* Number of hex digits of a token address (20 bytes have 40).
AddrDigits == 2
\* sqrtPriceX96 values are h * 2^96 + m * 2^48 + l with h and m up to this.
MaxMantissa == 1
\* Pool ticks and position bounds lie in -MaxTick..MaxTick.
MaxTick == 1
\* Longest prices list of a market_chart answer.
MaxPoints == 2
\* Longest list of lending positions, and the largest value of a position.
MaxPositions == 2

MaxValue == 2
\* The largest latest block number of the chain.
MaxBlock == 4

---------------------------------------------------------------------------
(* JavaScript strings *)

UpperLetters ==
    <<"A","B","C","D","E","F","G","H","I","J","K","L","M",
      "N","O","P","Q","R","S","T","U","V","W","X","Y","Z">>

LowerLetters ==
    <<"a","b","c","d","e","f","g","h","i","j","k","l","m",
      "n","o","p","q","r","s","t","u","v","w","x","y","z">>

LetterIndex(letters, ch) == CHOOSE k \in 1..26 : letters[k] = ch

IsLetterOf(letters, ch) == \E k \in 1..26 : letters[k] = ch

\* String.prototype.toLowerCase
toLowerCase(s) ==
    [i \in 1..Len(s) |->
        IF IsLetterOf(UpperLetters, s[i])
        THEN LowerLetters[LetterIndex(UpperLetters, s[i])]
        ELSE s[i]]

\* String.prototype.toUpperCase
toUpperCase(s) ==
    [i \in 1..Len(s) |->
        IF IsLetterOf(LowerLetters, s[i])
        THEN UpperLetters[LetterIndex(LowerLetters, s[i])]
        ELSE s[i]]

RECURSIVE join(_, _)
\* Array.prototype.join
join(arr, sep) ==
    IF Len(arr) = 0 THEN <<>>
    ELSE IF Len(arr) = 1 THEN arr[1]
    ELSE arr[1] \o sep \o join(Tail(arr), sep)

\* The value of a property that an object does not have (a record, as the
\* values it is compared with are).
Undefined == [undefined |-> TRUE]

---------------------------------------------------------------------------
(* PriceOracle: constructor and pure helpers *)

cacheTTL == 60000

\* The object literal `mapping` of getCoinGeckoId, as its (key, value) pairs.
mapping ==
    { <<<<"E","T","H">>, <<"e","t","h","e","r","e","u","m">>>>,
      <<<<"B","T","C">>, <<"b","i","t","c","o","i","n">>>>,
      <<<<"U","S","D","C">>, <<"u","s","d","-","c","o","i","n">>>>,
      <<<<"U","S","D","T">>, <<"t","e","t","h","e","r">>>>,
      <<<<"D","A","I">>, <<"d","a","i">>>>,
      <<<<"W","E","T","H">>, <<"w","e","t","h">>>>,
      <<<<"W","B","T","C">>,
        <<"w","r","a","p","p","e","d","-","b","i","t","c","o","i","n">>>>,
      <<<<"U","N","I">>, <<"u","n","i","s","w","a","p">>>>,
      <<<<"A","A","V","E">>, <<"a","a","v","e">>>>,
      <<<<"L","I","N","K">>, <<"c","h","a","i","n","l","i","n","k">>>>,
      <<<<"M","A","T","I","C">>,
        <<"m","a","t","i","c","-","n","e","t","w","o","r","k">>>>,
      <<<<"A","R","B">>, <<"a","r","b","i","t","r","u","m">>>> }

\* mapping[symbol.toUpperCase()] || symbol.toLowerCase()
getCoinGeckoId(symbol) ==
    IF \E e \in mapping : e[1] = toUpperCase(symbol)
    THEN (CHOOSE e \in mapping : e[1] = toUpperCase(symbol))[2]
    ELSE toLowerCase(symbol)

\* Mutant of CacheKey: the entry is keyed by the upstream identifier.
CacheKeyById(tokenSymbol) ==
    <<"p","r","i","c","e","_">> \o getCoinGeckoId(tokenSymbol)

\* `price_${tokenSymbol.toLowerCase()}`
CacheKey(tokenSymbol) ==
    <<"p","r","i","c","e","_">> \o toLowerCase(tokenSymbol)

\* The empty Map.
EmptyMap == [k \in {} |-> Undefined]

\* Map.prototype.set
MapSet(m, k, v) == (k :> v) @@ m

\* Mutant of CacheLive: the comparison is the wrong way round.
CacheLiveInverted(c, key, t) ==
    /\ key \in DOMAIN c
    /\ t - c[key].timestamp > cacheTTL

\* Mutant of CacheLive: an entry counts as live whatever its age.
CacheLiveForever(c, key, t) == key \in DOMAIN c

\* Mutant of CacheLive: an entry of age cacheTTL still counts as live.
CacheLiveInclusive(c, key, t) ==
    /\ key \in DOMAIN c
    /\ t - c[key].timestamp <= cacheTTL

\* this.cache.has(cacheKey) and Date.now() - cached.timestamp < this.cacheTTL
CacheLive(c, key, t) ==
    /\ key \in DOMAIN c
    /\ t - c[key].timestamp < cacheTTL

---------------------------------------------------------------------------
(* UniswapAnalytics.computePoolAddress *)

\* The characters in the order of their UTF-16 code units.
CodeOrder ==
    <<"0","1","2","3","4","5","6","7","8","9">> \o UpperLetters \o LowerLetters

CharCode(ch) == CHOOSE k \in 1..Len(CodeOrder) : CodeOrder[k] = ch

RECURSIVE StrLess(_, _)
\* a < b on strings: by code unit, a proper prefix being smaller.
StrLess(a, b) ==
    IF Len(b) = 0 THEN FALSE
    ELSE IF Len(a) = 0 THEN TRUE
    ELSE IF a[1] = b[1] THEN StrLess(Tail(a), Tail(b))
    ELSE CharCode(a[1]) < CharCode(b[1])

HexDigits == <<"0","1","2","3","4","5","6","7","8","9","a","b","c","d","e","f">>

RECURSIVE HexValue(_)
\* The number a string of lowercase hex digits denotes.
HexValue(digits) ==
    IF Len(digits) = 0 THEN 0
    ELSE 16 * HexValue(SubSeq(digits, 1, Len(digits) - 1))
         + (CHOOSE k \in 1..16 : HexDigits[k] = digits[Len(digits)]) - 1

\* The word defaultAbiCoder.encode writes for an 'address': the number the
\* digits after 0x denote, whatever the case of the digits.
AbiAddress(token) == HexValue(toLowerCase(SubSeq(token, 3, Len(token))))

\* Mutant of SortTokens: the pair is used in the order given.
SortTokensAsGiven(token0, token1) == <<token0, token1>>

\* The pair [tokenA, tokenB] of computePoolAddress.
SortTokens(token0, token1) ==
    IF StrLess(toLowerCase(token0), toLowerCase(token1))
    THEN <<token0, token1>>
    ELSE <<token1, token0>>

factoryAddress == "0x1F98431c8aD98523631AE4a59f267346ea31F984"

POOL_INIT_CODE_HASH ==
    "0xe34f199b19b2b4f47f68442619d555527d244f78a3297ea89325f843f87b8b54"

\* keccak256 of the ABI encoding: a hash is modelled as the one-to-one tag
\* of the encoded words.
Salt(tokenA, tokenB, fee) ==
    [keccak256 |-> <<AbiAddress(tokenA), AbiAddress(tokenB), fee>>]

\* computePoolAddress; getCreate2Address is modelled as the one-to-one tag
\* of its three arguments.
computePoolAddress(token0, token1, fee) ==
    [create2 |->
        <<factoryAddress,
          Salt(SortTokens(token0, token1)[1], SortTokens(token0, token1)[2],
               fee),
          POOL_INIT_CODE_HASH>>]

---------------------------------------------------------------------------
(* ethers.BigNumber and formatUnits, as calculatePrice uses them            *)
(*                                                                         *)
(* A BigNumber is a non-negative integer of any size: the list of its      *)
(* decimal digits, units first, without high zeros; zero is the empty list. *)

RECURSIVE Trim(_)
\* The digit list without its high zeros.
Trim(d) ==
    IF Len(d) > 0 /\ d[Len(d)] = 0 THEN Trim(SubSeq(d, 1, Len(d) - 1)) ELSE d

RECURSIVE BigFrom(_)
\* ethers.BigNumber.from(n)
BigFrom(n) == IF n = 0 THEN <<>> ELSE <<n % 10>> \o BigFrom(n \div 10)

DigitAt(a, i) == IF i <= Len(a) THEN a[i] ELSE 0

RECURSIVE AddRange(_, _, _, _, _)
\* The digits lo..hi of a + b, given the carry into lo, and the carry out of
\* hi; the range is halved so that the evaluation stays shallow.
AddRange(a, b, lo, hi, carry) ==
    IF lo > hi THEN <<<<>>, carry>>
    ELSE IF lo = hi
    THEN <<<<(DigitAt(a, lo) + DigitAt(b, lo) + carry) % 10>>,
           (DigitAt(a, lo) + DigitAt(b, lo) + carry) \div 10>>
    ELSE LET low == AddRange(a, b, lo, (lo + hi) \div 2, carry)
             high == AddRange(a, b, (lo + hi) \div 2 + 1, hi, low[2])
         IN  <<low[1] \o high[1], high[2]>>

\* BigNumber.add
add(a, b) ==
    LET sum == AddRange(a, b, 1, IF Len(a) > Len(b) THEN Len(a) ELSE Len(b), 0)
    IN  IF sum[2] = 0 THEN sum[1] ELSE Append(sum[1], sum[2])

RECURSIVE SubRange(_, _, _, _, _)
\* The digits lo..hi of a - b, given the borrow from lo, and the borrow
\* from above hi.
SubRange(a, b, lo, hi, borrow) ==
    IF lo > hi THEN <<<<>>, borrow>>
    ELSE IF lo = hi
    THEN <<<<(10 + a[lo] - DigitAt(b, lo) - borrow) % 10>>,
           IF a[lo] - DigitAt(b, lo) - borrow < 0 THEN 1 ELSE 0>>
    ELSE LET low == SubRange(a, b, lo, (lo + hi) \div 2, borrow)
             high == SubRange(a, b, (lo + hi) \div 2 + 1, hi, low[2])
         IN  <<low[1] \o high[1], high[2]>>

\* BigNumber.sub, for a >= b
sub(a, b) == Trim(SubRange(a, b, 1, Len(a), 0)[1])

\* BigNumber.lt
lt(a, b) ==
    IF Len(a) # Len(b) THEN Len(a) < Len(b)
    ELSE \E k \in 1..Len(a) :
            /\ a[k] < b[k]
            /\ \A m \in (k + 1)..Len(a) : a[m] = b[m]

RECURSIVE ScaleRange(_, _, _, _, _)
\* The digits lo..hi of a times the digit k, given the carry into lo, and
\* the carry out of hi.
ScaleRange(a, k, lo, hi, carry) ==
    IF lo > hi THEN <<<<>>, carry>>
    ELSE IF lo = hi
    THEN <<<<(a[lo] * k + carry) % 10>>, (a[lo] * k + carry) \div 10>>
    ELSE LET low == ScaleRange(a, k, lo, (lo + hi) \div 2, carry)
             high == ScaleRange(a, k, (lo + hi) \div 2 + 1, hi, low[2])
         IN  <<low[1] \o high[1], high[2]>>

\* a times the digit k.
Scale(a, k) ==
    LET product == ScaleRange(a, k, 1, Len(a), 0)
    IN  Trim(IF product[2] = 0 THEN product[1]
             ELSE Append(product[1], product[2]))

\* Ten times a, plus the digit d.
Shift(a, d) == IF Len(a) = 0 /\ d = 0 THEN <<>> ELSE <<d>> \o a

RECURSIVE MulRange(_, _, _, _, _)
\* a times the digits hi..lo of b, acc being a times the digits above hi.
MulRange(a, b, lo, hi, acc) ==
    IF lo > hi THEN acc
    ELSE IF lo = hi THEN add(Scale(a, b[lo]), Shift(acc, 0))
    ELSE LET high == MulRange(a, b, (lo + hi) \div 2 + 1, hi, acc)
         IN  IF Len(high) = 0
             THEN MulRange(a, b, lo, (lo + hi) \div 2, <<>>)
             ELSE MulRange(a, b, lo, (lo + hi) \div 2, high)

\* BigNumber.mul
mul(a, b) == MulRange(a, b, 1, Len(b), <<>>)

RECURSIVE Times(_, _, _)
\* How often b goes into rem, and what is left: <<count, rest>>.
Times(rem, b, count) ==
    IF lt(rem, b) THEN <<count, rem>> ELSE Times(sub(rem, b), b, count + 1)

RECURSIVE DivRange(_, _, _, _, _)
\* Long division of the digits hi..lo of a by b: st holds the quotient the
\* digits above hi gave and the remainder they left, as <<quotient, rem>>.
DivRange(a, b, lo, hi, st) ==
    IF lo > hi THEN st
    ELSE IF lo = hi
    THEN LET t == Times(Shift(st[2], a[lo]), b, 0)
         IN  <<Shift(st[1], t[1]), t[2]>>
    ELSE LET high == DivRange(a, b, (lo + hi) \div 2 + 1, hi, st)
         IN  IF Len(high[1]) = 0
             THEN DivRange(a, b, lo, (lo + hi) \div 2, <<<<>>, high[2]>>)
             ELSE DivRange(a, b, lo, (lo + hi) \div 2, high)

\* BigNumber.div: the quotient rounded towards zero (b is not zero).
div(a, b) == DivRange(a, b, 1, Len(a), <<<<>>, <<>>>>)[1]

\* BigNumber.mod
mod(a, b) == DivRange(a, b, 1, Len(a), <<<<>>, <<>>>>)[2]

RECURSIVE pow(_, _)
\* BigNumber.pow, by squaring.
pow(a, n) ==
    IF n = 0 THEN <<1>>
    ELSE LET half == pow(a, n \div 2)
         IN  IF n % 2 = 0 THEN mul(half, half) ELSE mul(a, mul(half, half))

DigitChars == <<"0","1","2","3","4","5","6","7","8","9">>

\* BigNumber.toString
toString(a) ==
    IF Len(a) = 0 THEN <<"0">>
    ELSE [i \in 1..Len(a) |-> DigitChars[a[Len(a) + 1 - i] + 1]]

RECURSIVE StripZeros(_)
\* A fraction without its trailing zeros, one digit at least.
StripZeros(str) ==
    IF Len(str) > 1 /\ str[Len(str)] = "0"
    THEN StripZeros(SubSeq(str, 1, Len(str) - 1))
    ELSE str

\* ethers.utils.formatUnits(value, decimals): value / 10^decimals written as
\* a decimal string, the whole part, a point and the fraction without its
\* trailing zeros ("1.0" for one); no point when decimals is 0.
formatUnits(value, decimals) ==
    LET multiplier == pow(BigFrom(10), decimals)
        parts == DivRange(value, multiplier, 1, Len(value), <<<<>>, <<>>>>)
        whole == toString(parts[1])
        digits == toString(parts[2])
        fraction == [i \in 1..(decimals - Len(digits)) |-> "0"] \o digits
    IN  IF decimals = 0 THEN whole
        ELSE whole \o <<".">> \o StripZeros(fraction)

\* Q96 of calculatePrice
Q96 == pow(BigFrom(2), 96)

\* Mutant of calculatePrice: the remainder of the division by Q96 is taken.
calculatePriceRemainder(sqrtPriceX96, token0Decimals, token1Decimals) ==
    LET price == mod(mul(sqrtPriceX96, sqrtPriceX96), Q96)
        adjustedPrice ==
            div(mul(price, pow(BigFrom(10), token0Decimals)),
                pow(BigFrom(10), token1Decimals))
    IN  formatUnits(adjustedPrice, token1Decimals)

\* calculatePrice
calculatePrice(sqrtPriceX96, token0Decimals, token1Decimals) ==
    LET price == div(mul(sqrtPriceX96, sqrtPriceX96), Q96)
        adjustedPrice ==
            div(mul(price, pow(BigFrom(10), token0Decimals)),
                pow(BigFrom(10), token1Decimals))
    IN  formatUnits(adjustedPrice, token1Decimals)

---------------------------------------------------------------------------
(* JavaScript numbers                                                      *)
(*                                                                         *)
(* A Number is kept as the fraction num / den in lowest terms, den >= 0:   *)
(* 1/0 is Infinity and 0/0 is NaN. The numbers that occur are not          *)
(* negative, and the rounding of doubles is not modelled.                  *)

RECURSIVE GCD(_, _)
GCD(a, b) == IF b = 0 THEN a ELSE GCD(b, a % b)

\* The Number n / d, for n >= 0 and d >= 0.
Fraction(n, d) ==
    IF d = 0 THEN [num |-> IF n = 0 THEN 0 ELSE 1, den |-> 0]
    ELSE [num |-> n \div GCD(n, d), den |-> d \div GCD(n, d)]

Num(n) == [num |-> n, den |-> 1]

Infinity == [num |-> 1, den |-> 0]

NaN == [num |-> 0, den |-> 0]

\* a / b
NumDiv(a, b) ==
    IF a = NaN \/ b = NaN THEN NaN
    ELSE Fraction(a.num * b.den, a.den * b.num)

\* a * b
NumMul(a, b) ==
    IF a = NaN \/ b = NaN THEN NaN
    ELSE Fraction(a.num * b.num, a.den * b.den)

\* a + b
NumAdd(a, b) ==
    IF a = NaN \/ b = NaN THEN NaN
    ELSE IF a = Infinity \/ b = Infinity THEN Infinity
    ELSE Fraction(a.num * b.den + b.num * a.den, a.den * b.den)

\* a < b: false when either is NaN
NumLess(a, b) ==
    /\ a # NaN
    /\ b # NaN
    /\ a.num * b.den < b.num * a.den

\* The Number a value that is a Number or undefined converts to.
ToNumber(v) == IF v = Undefined THEN NaN ELSE v

RECURSIVE StringToNumber(_)
\* The Number a string of decimal digits converts to.
StringToNumber(str) ==
    IF Len(str) = 0 THEN Num(0)
    ELSE Num(10 * StringToNumber(SubSeq(str, 1, Len(str) - 1)).num
             + (CHOOSE k \in 1..10 : DigitChars[k] = str[Len(str)]) - 1)

---------------------------------------------------------------------------
(* UniswapAnalytics.getPoolInfo and calculateLiquidityAPY *)

\* undefined, where a string is expected: an argument that was not passed.
UndefinedString == <<"undefined">>

\* The four view functions getPoolInfo reads.
ReadNames == {"slot0", "liquidity", "token0", "token1"}

NoError == <<>>

\* token1.toLowerCase() on undefined
TypeError == <<"TypeError", "toLowerCase">>

\* The error a read of the pool contract rejects with.
ReadError(name) == <<"CALL_EXCEPTION", name>>

\* computePoolAddress throws when an address is undefined.
ComputePoolAddressThrows(token0, token1) ==
    token0 = UndefinedString \/ token1 = UndefinedString

\* Mutant of AllResolved: the first read that resolves is enough.
SomeResolved(reads) == \E n \in ReadNames : reads[n] = "ok"

\* Promise.all resolves when every promise of the list has resolved.
AllResolved(reads) == \A n \in ReadNames : reads[n] = "ok"

\* The object getPoolInfo returns.
PoolInfo(address, fee, onchain) ==
    [address |-> address,
     token0 |-> onchain.token0,
     token1 |-> onchain.token1,
     fee |-> fee,
     sqrtPriceX96 |-> onchain.slot0.sqrtPriceX96,
     tick |-> onchain.slot0.tick,
     liquidity |-> toString(onchain.liquidity),
     observationIndex |-> onchain.slot0.observationIndex,
     observationCardinality |-> onchain.slot0.observationCardinality]

\* get24hVolume: the mock value.
get24hVolume == Num(100000)

\* calculateLiquidityAPY after getPoolInfo has returned poolInfo.
LiquidityAPY(poolInfo, positionTickLower, positionTickUpper) ==
    LET currentTick == poolInfo.tick
        inRange == /\ currentTick >= positionTickLower
                   /\ currentTick <= positionTickUpper
        volume24h == get24hVolume
        feeRate == NumDiv(ToNumber(poolInfo.fee), Num(1000000))
        fees24h == NumMul(volume24h, feeRate)
        apy == NumMul(NumDiv(NumMul(fees24h, Num(365)),
                             StringToNumber(poolInfo.liquidity)),
                      Num(100))
    IN  IF ~inRange THEN [apy |-> Num(0), inRange |-> FALSE]
        ELSE [apy |-> apy, inRange |-> TRUE,
              volume24h |-> volume24h, fees24h |-> fees24h]

\* A call of op with its arguments, before it runs.
PoolCall(op, token0Address, token1Address, fee, tickLower, tickUpper) ==
    [op |-> op, pc |-> "called",
     token0Address |-> token0Address, token1Address |-> token1Address,
     fee |-> fee,
     positionTickLower |-> tickLower, positionTickUpper |-> tickUpper,
     address |-> Undefined,
     calls |-> [n \in ReadNames |-> 0],
     reads |-> [n \in ReadNames |-> "none"],
     result |-> Undefined, error |-> NoError]

\* getPoolInfo up to the await of Promise.all: the address is computed and
\* the four reads are sent; when computePoolAddress throws, the catch block
\* logs and rethrows.
GetPoolInfoBegin(call) ==
    IF ComputePoolAddressThrows(call.token0Address, call.token1Address)
    THEN [call EXCEPT !.pc = "failed", !.error = TypeError]
    ELSE [call EXCEPT
            !.pc = "reading",
            !.address = computePoolAddress(call.token0Address,
                                           call.token1Address, call.fee),
            !.calls = [n \in ReadNames |-> call.calls[n] + 1],
            !.reads = [n \in ReadNames |-> "pending"]]

\* getPoolInfo(token0Address, token1Address, fee) is called.
GetPoolInfoStart ==
    /\ pool.op = "getPoolInfo"
    /\ pool.pc = "called"
    /\ pool' = GetPoolInfoBegin(pool)
    /\ UNCHANGED <<cache, now, req, cleared, chain, search, risk>>

\* calculateLiquidityAPY(poolAddress, positionTickLower, positionTickUpper)
\* is called: it calls getPoolInfo(poolAddress), with one argument.
CalculateLiquidityAPYStart ==
    /\ pool.op = "calculateLiquidityAPY"
    /\ pool.pc = "called"
    /\ pool' = GetPoolInfoBegin(
                  [pool EXCEPT !.token1Address = UndefinedString,
                               !.fee = Undefined])
    /\ UNCHANGED <<cache, now, req, cleared, chain, search, risk>>

\* One of the four reads resolves or rejects. Promise.all rejects with the
\* first rejection and resolves when all have resolved; then getPoolInfo
\* returns or rethrows, and calculateLiquidityAPY goes on with the object
\* returned.
ReadSettles(name, ok) ==
    /\ pool.pc \in {"reading", "failed", "returned"}
    /\ pool.reads[name] = "pending"
    /\ LET reads == [pool.reads EXCEPT ![name] = IF ok THEN "ok" ELSE "failed"]
           poolInfo == PoolInfo(pool.address, pool.fee, chain)
       IN  pool' =
             IF pool.pc # "reading" THEN [pool EXCEPT !.reads = reads]
             ELSE IF ~ok
             THEN [pool EXCEPT !.reads = reads, !.pc = "failed",
                               !.error = ReadError(name)]
             ELSE IF ~AllResolved(reads) THEN [pool EXCEPT !.reads = reads]
             ELSE IF pool.op = "getPoolInfo"
             THEN [pool EXCEPT !.reads = reads, !.pc = "returned",
                               !.result = poolInfo]
             ELSE [pool EXCEPT !.reads = reads, !.pc = "returned",
                               !.result = LiquidityAPY(poolInfo,
                                              pool.positionTickLower,
                                              pool.positionTickUpper)]
    /\ UNCHANGED <<cache, now, req, cleared, chain, search, risk>>

---------------------------------------------------------------------------
(* PortfolioAnalytics.calculateRiskMetrics *)

RECURSIVE RiskTotals(_, _, _)
\* The loop over positions, from position i on: totals holds totalCollateral,
\* totalDebt and liquidationThreshold as they are before position i.
RiskTotals(positions, i, totals) ==
    IF i > Len(positions) THEN totals
    ELSE IF positions[i].type = "collateral"
    THEN RiskTotals(positions, i + 1,
            [totals EXCEPT
                !.totalCollateral = NumAdd(@, positions[i].value),
                !.liquidationThreshold =
                    NumAdd(@, NumMul(positions[i].value,
                                     positions[i].liquidationThreshold))])
    ELSE IF positions[i].type = "debt"
    THEN RiskTotals(positions, i + 1,
            [totals EXCEPT !.totalDebt = NumAdd(@, positions[i].value)])
    ELSE RiskTotals(positions, i + 1, totals)

\* totalCollateral > 0 ? (liquidationThreshold / totalCollateral) /
\* (totalDebt / totalCollateral) : Infinity
HealthFactor(totals) ==
    IF NumLess(Num(0), totals.totalCollateral)
    THEN NumDiv(NumDiv(totals.liquidationThreshold, totals.totalCollateral),
                NumDiv(totals.totalDebt, totals.totalCollateral))
    ELSE Infinity

\* Mutant of CollateralizationRatio: the division is not guarded.
CollateralizationRatioUnguarded(totalCollateral, totalDebt) ==
    NumDiv(totalCollateral, totalDebt)

\* totalDebt > 0 ? totalCollateral / totalDebt : Infinity
CollateralizationRatio(totalCollateral, totalDebt) ==
    IF NumLess(Num(0), totalDebt) THEN NumDiv(totalCollateral, totalDebt)
    ELSE Infinity

\* healthFactor < 1.5 ? 'High' : healthFactor < 2 ? 'Medium' : 'Low'
LiquidationRisk(healthFactor) ==
    IF NumLess(healthFactor, Fraction(3, 2)) THEN "High"
    ELSE IF NumLess(healthFactor, Num(2)) THEN "Medium"
    ELSE "Low"

\* The object calculateRiskMetrics returns for the positions it was given.
RiskMetrics(positions) ==
    LET totals == RiskTotals(positions, 1,
                             [totalCollateral |-> Num(0), totalDebt |-> Num(0),
                              liquidationThreshold |-> Num(0)])
    IN  [healthFactor |-> HealthFactor(totals),
         collateralizationRatio |->
            CollateralizationRatio(totals.totalCollateral, totals.totalDebt),
         liquidationRisk |-> LiquidationRisk(HealthFactor(totals)),
         totalCollateral |-> totals.totalCollateral,
         totalDebt |-> totals.totalDebt]

\* calculateRiskMetrics up to its await: getLendingPositions is called.
CalculateRiskMetricsStart ==
    /\ risk.pc = "called"
    /\ risk' = [risk EXCEPT !.pc = "awaiting"]
    /\ UNCHANGED <<cache, now, req, cleared, pool, chain, search>>

\* calculateRiskMetrics after the await: getLendingPositions has resolved
\* with the list positions (it catches the errors of the protocol calls).
CalculateRiskMetricsResume(positions) ==
    /\ risk.pc = "awaiting"
    /\ risk' = [risk EXCEPT !.pc = "returned", !.positions = positions,
                            !.result = RiskMetrics(positions)]
    /\ UNCHANGED <<cache, now, req, cleared, pool, chain, search>>

---------------------------------------------------------------------------
(* ContractUtils.getContractCreationBlock: a binary search over the block *)
(* numbers 0..latest, one provider call per await.                        *)

\* What getCode resolves with for an address without code, and with code.
EmptyCode == <<"0", "x">>

Bytecode == <<"0", "x", "6", "0">>

Null == [null |-> TRUE]

\* provider.getCode(address, block) on a chain where the address has code
\* from block created on.
CodeAt(c, block) == IF block >= c.created THEN Bytecode ELSE EmptyCode

\* The outcomes of provider.getCode(address, block). The call may be
\* rejected. A block tag outside 0..latest is resolved by the provider the
\* class was given, not by this code: it may answer either way, or reject.
GetCodeOutcomes(c, block) ==
    IF block \in 0..c.latest
    THEN {[ok |-> TRUE, code |-> CodeAt(c, block)],
          [ok |-> FALSE, code |-> EmptyCode]}
    ELSE {[ok |-> TRUE, code |-> EmptyCode],
          [ok |-> TRUE, code |-> Bytecode],
          [ok |-> FALSE, code |-> EmptyCode]}

\* while (low <= high) { mid = Math.floor((low + high) / 2);
\* code = await getCode(address, mid) ... } return null: the loop test and
\* what follows it up to the next await. low <= high holds with low >= 0,
\* so the quotient is that of non-negative numbers.
SearchLoop(s) ==
    IF s.low <= s.high
    THEN LET mid == (s.low + s.high) \div 2
         IN  [s EXCEPT !.pc = "getCode", !.mid = mid,
                       !.queries = @ \cup {mid}]
    ELSE [s EXCEPT !.pc = "returned", !.result = Null]

\* getContractCreationBlock up to its first await: low = 0 and
\* provider.getBlockNumber() is called.
GetContractCreationBlockStart ==
    /\ search.pc = "called"
    /\ search' = [search EXCEPT !.pc = "getBlockNumber", !.low = 0]
    /\ UNCHANGED <<cache, now, req, cleared, pool, chain, risk>>

\* getBlockNumber settles: high is the latest block number, and the loop
\* is entered; a rejection leaves the method.
GetBlockNumberSettles(ok) ==
    /\ search.pc = "getBlockNumber"
    /\ search' = IF ok
                 THEN SearchLoop([search EXCEPT !.high = chain.latest])
                 ELSE [search EXCEPT !.pc = "threw"]
    /\ UNCHANGED <<cache, now, req, cleared, pool, chain, risk>>

\* getCode(address, mid) settles: without code the search goes on above
\* mid; with code getCode(address, mid - 1) is called.
GetCodeSettles(answer) ==
    /\ search.pc = "getCode"
    /\ answer \in GetCodeOutcomes(chain, search.mid)
    /\ search' =
          IF ~answer.ok THEN [search EXCEPT !.pc = "threw"]
          ELSE IF answer.code = EmptyCode
               THEN SearchLoop([search EXCEPT !.low = search.mid + 1])
               ELSE [search EXCEPT !.pc = "getPrevCode",
                                   !.queries = @ \cup {search.mid - 1}]
    /\ UNCHANGED <<cache, now, req, cleared, pool, chain, risk>>

\* getCode(address, mid - 1) settles: without code there, mid is returned;
\* with code the search goes on below mid.
GetPrevCodeSettles(answer) ==
    /\ search.pc = "getPrevCode"
    /\ answer \in GetCodeOutcomes(chain, search.mid - 1)
    /\ search' =
          IF ~answer.ok THEN [search EXCEPT !.pc = "threw"]
          ELSE IF answer.code = EmptyCode
               THEN [search EXCEPT !.pc = "returned",
                                   !.result = [block |-> search.mid]]
               ELSE SearchLoop([search EXCEPT !.high = search.mid - 1])
    /\ UNCHANGED <<cache, now, req, cleared, pool, chain, risk>>

---------------------------------------------------------------------------
(* The upstream price source (CoinGecko), reached through axios.get *)

\* The entry the upstream holds for one identifier at usd price v. The
\* market-cap and volume fields are present only when the request asks for
\* them (include_market_cap, include_24hr_vol).
UpstreamEntry(v, full) ==
    IF full
    THEN [usd |-> v, usd_24h_change |-> 0 - v,
          usd_market_cap |-> 1000 * v, usd_24h_vol |-> 10 * v]
    ELSE [usd |-> v, usd_24h_change |-> 0 - v]

\* The set of identifiers of a list.
Range(seq) == {seq[i] : i \in 1..Len(seq)}

\* What axios.get can produce for a request: it throws, or it resolves with
\* a response whose data has an entry for some of the requested identifiers.
Responses(idList, full) ==
    {[ok |-> FALSE, data |-> EmptyMap]} \cup
    {[ok |-> TRUE, data |-> d] :
        d \in UNION {[D -> {UpstreamEntry(v, full) : v \in 1..MaxPrice}] :
                        D \in SUBSET Range(idList)}}

\* object[property]
Get(obj, property) ==
    IF property \in DOMAIN obj THEN obj[property] ELSE Undefined

---------------------------------------------------------------------------
(* Requests *)

Requests == 1..MaxRequests

\* A request slot with no request in it. op and arg are the method called and
\* its argument, coinIds the identifiers it resolved, ids the ids parameter
\* of the request it sent, fetches the number of axios.get calls it made,
\* result and error what it returned or threw. History: sentAt is Date.now()
\* when the pending request was sent (0 when none is pending) or when
\* getCacheStats was called, data the response.data the call received.
Idle ==
    [op |-> "none", pc |-> "idle", arg |-> <<>>, coinIds |-> <<>>,
     ids |-> <<>>, fetches |-> 0, result |-> Undefined, error |-> "none",
     sentAt |-> 0, data |-> EmptyMap]

\* The clock step and the last clock value of the model.
TickMs == cacheTTL \div TicksPerTTL

MaxTime == MaxTicks * TickMs

(* getPrice *)

\* fetchPriceFromCoinGecko, after the await: the record built from
\* response.data[coinId]; reading a field of undefined throws a TypeError.
FetchedPrice(data, coinId) ==
    IF Get(data, coinId) = Undefined
    THEN [threw |-> TRUE, price |-> Undefined]
    ELSE [threw |-> FALSE,
          price |-> [usd |-> data[coinId].usd,
                     change24h |-> data[coinId].usd_24h_change,
                     marketCap |-> data[coinId].usd_market_cap,
                     volume24h |-> data[coinId].usd_24h_vol]]

\* Mutant of CacheAfterFetch: an entry that exists is not overwritten.
CacheAfterFetchIfAbsent(c, tokenSymbol, price, t) ==
    IF CacheKey(tokenSymbol) \in DOMAIN c THEN c
    ELSE MapSet(c, CacheKey(tokenSymbol), [price |-> price, timestamp |-> t])

\* this.cache.set(cacheKey, {price, timestamp: Date.now()})
CacheAfterFetch(c, tokenSymbol, price, t) ==
    MapSet(c, CacheKey(tokenSymbol), [price |-> price, timestamp |-> t])

\* Mutant of CacheAfterError: a failed fetch evicts the entry of the key.
CacheAfterErrorEvict(c, tokenSymbol) ==
    [k \in DOMAIN c \ {CacheKey(tokenSymbol)} |-> c[k]]

\* The cache after the catch block of getPrice: the block logs and rethrows.
CacheAfterError(c, tokenSymbol) == c

\* getPrice up to its first await: the cache check, and on a miss the
\* request that fetchPriceFromCoinGecko sends.
GetPriceStart(r, tokenSymbol) ==
    /\ req[r].pc = "idle"
    /\ req' = [req EXCEPT ![r] =
            IF CacheLive(cache, CacheKey(tokenSymbol), now)
            THEN [Idle EXCEPT !.op = "getPrice", !.pc = "returned",
                              !.arg = tokenSymbol,
                              !.result = cache[CacheKey(tokenSymbol)].price]
            ELSE [Idle EXCEPT !.op = "getPrice", !.pc = "fetching",
                              !.arg = tokenSymbol, !.sentAt = now,
                              !.coinIds = <<getCoinGeckoId(tokenSymbol)>>,
                              !.ids = getCoinGeckoId(tokenSymbol),
                              !.fetches = 1]]
    /\ cleared' = FALSE
    /\ UNCHANGED <<cache, now, pool, chain, search, risk>>

\* getPrice after the await: axios.get has thrown or resolved.
GetPriceResume(r, response) ==
    /\ req[r].op = "getPrice"
    /\ req[r].pc = "fetching"
    /\ LET coinId == req[r].coinIds[1]
           fetched == FetchedPrice(response.data, coinId)
       IN  IF ~response.ok
           THEN /\ req' = [req EXCEPT ![r].pc = "failed", ![r].sentAt = 0,
                                      ![r].error = "AxiosError"]
                /\ cache' = CacheAfterError(cache, req[r].arg)
           ELSE IF fetched.threw
           THEN /\ req' = [req EXCEPT ![r].pc = "failed", ![r].sentAt = 0,
                                      ![r].error = "TypeError",
                                      ![r].data = response.data]
                /\ cache' = CacheAfterError(cache, req[r].arg)
           ELSE /\ req' = [req EXCEPT ![r].pc = "returned", ![r].sentAt = 0,
                                      ![r].result = fetched.price,
                                      ![r].data = response.data]
                /\ cache' = CacheAfterFetch(cache, req[r].arg,
                                            fetched.price, now)
    /\ UNCHANGED <<now, cleared, pool, chain, search, risk>>

(* getBatchPrices *)

RECURSIVE Distinct(_)
\* A list without its repeated elements.
Distinct(seq) ==
    IF Len(seq) = 0 THEN <<>>
    ELSE LET front == Distinct(SubSeq(seq, 1, Len(seq) - 1))
         IN  IF seq[Len(seq)] \in Range(front) THEN front
             ELSE Append(front, seq[Len(seq)])

\* Mutant of BatchCoinIds: each identifier is listed once.
BatchCoinIdsDistinct(tokenSymbols) ==
    Distinct([i \in 1..Len(tokenSymbols) |-> getCoinGeckoId(tokenSymbols[i])])

\* tokenSymbols.map(symbol => this.getCoinGeckoId(symbol))
BatchCoinIds(tokenSymbols) ==
    [i \in 1..Len(tokenSymbols) |-> getCoinGeckoId(tokenSymbols[i])]

\* The ids parameter of the batch request: coinIds.join(',')
BatchIds(coinIds) == join(coinIds, <<",">>)

RECURSIVE BatchPricesFromLowercased(_, _, _, _, _)
\* Mutant of BatchPricesFrom: the result is keyed by the lowercased symbol.
BatchPricesFromLowercased(prices, tokenSymbols, coinIds, data, index) ==
    IF index > Len(tokenSymbols) THEN prices
    ELSE BatchPricesFromLowercased(
            MapSet(prices, toLowerCase(tokenSymbols[index]),
                   Get(data, coinIds[index])),
            tokenSymbols, coinIds, data, index + 1)

RECURSIVE BatchPricesFrom(_, _, _, _, _)
\* tokenSymbols.forEach((symbol, index) => prices[symbol] = data[coinIds[index]])
\* from position index on, starting from the object prices.
BatchPricesFrom(prices, tokenSymbols, coinIds, data, index) ==
    IF index > Len(tokenSymbols) THEN prices
    ELSE BatchPricesFrom(
            MapSet(prices, tokenSymbols[index], Get(data, coinIds[index])),
            tokenSymbols, coinIds, data, index + 1)

\* The object getBatchPrices returns.
BatchPrices(tokenSymbols, coinIds, data) ==
    BatchPricesFrom(EmptyMap, tokenSymbols, coinIds, data, 1)

\* Mutant of CacheAfterBatch: the batch stores the entry of its first symbol.
CacheAfterBatchStoring(c, tokenSymbols, coinIds, data, t) ==
    IF Len(tokenSymbols) > 0 /\ coinIds[1] \in DOMAIN data
    THEN MapSet(c, CacheKey(tokenSymbols[1]),
                [price |-> data[coinIds[1]], timestamp |-> t])
    ELSE c

\* The cache after getBatchPrices has built its result: the method never
\* touches this.cache.
CacheAfterBatch(c, tokenSymbols, coinIds, data, t) == c

\* getBatchPrices up to its await: the request it sends.
GetBatchPricesStart(r, tokenSymbols) ==
    /\ req[r].pc = "idle"
    /\ req' = [req EXCEPT ![r] =
            [Idle EXCEPT !.op = "getBatchPrices", !.pc = "fetching",
                         !.arg = tokenSymbols, !.sentAt = now,
                         !.coinIds = BatchCoinIds(tokenSymbols),
                         !.ids = BatchIds(BatchCoinIds(tokenSymbols)),
                         !.fetches = 1]]
    /\ UNCHANGED <<cache, now, cleared, pool, chain, search, risk>>

\* getBatchPrices after the await.
GetBatchPricesResume(r, response) ==
    /\ req[r].op = "getBatchPrices"
    /\ req[r].pc = "fetching"
    /\ req' = [req EXCEPT ![r] =
            IF ~response.ok
            THEN [@ EXCEPT !.pc = "failed", !.sentAt = 0,
                           !.error = "AxiosError"]
            ELSE [@ EXCEPT !.pc = "returned", !.sentAt = 0,
                           !.data = response.data,
                           !.result = BatchPrices(req[r].arg,
                                                  req[r].coinIds,
                                                  response.data)]]
    /\ cache' = IF ~response.ok THEN cache
                ELSE CacheAfterBatch(cache, req[r].arg, req[r].coinIds,
                                     response.data, now)
    /\ UNCHANGED <<now, cleared, pool, chain, search, risk>>

(* getHistoricalPrices *)

\* new Date(timestamp): the Date object of that time value.
Date(timestamp) == [date |-> timestamp]

\* Mutant of HistoryPrices: the points are returned latest first.
HistoryPricesReversed(prices) ==
    [i \in 1..Len(prices) |->
        [timestamp |-> Date(prices[Len(prices) + 1 - i][1]),
         price |-> prices[Len(prices) + 1 - i][2]]]

\* response.data.prices.map(([timestamp, price]) =>
\*     ({timestamp: new Date(timestamp), price}))
HistoryPrices(prices) ==
    [i \in 1..Len(prices) |->
        [timestamp |-> Date(prices[i][1]), price |-> prices[i][2]]]

\* What axios.get can produce for a market_chart request: it throws, or it
\* resolves with data that has a prices list of up to MaxPoints
\* [timestamp, price] pairs, in any order, or with data that has none.
ChartResponses ==
    {[ok |-> FALSE, data |-> EmptyMap], [ok |-> TRUE, data |-> EmptyMap]}
    \cup
    {[ok |-> TRUE, data |-> [prices |-> l]] :
        l \in UNION {[1..n -> (1..MaxPoints) \X (1..MaxPrice)] :
                        n \in 0..MaxPoints}}

\* getHistoricalPrices up to its await: the request it sends. The cache is
\* not consulted.
GetHistoricalPricesStart(r, tokenSymbol, days) ==
    /\ req[r].pc = "idle"
    /\ req' = [req EXCEPT ![r] =
            [Idle EXCEPT !.op = "getHistoricalPrices", !.pc = "fetching",
                         !.arg = <<tokenSymbol, days>>, !.sentAt = now,
                         !.coinIds = <<getCoinGeckoId(tokenSymbol)>>,
                         !.ids = getCoinGeckoId(tokenSymbol),
                         !.fetches = 1]]
    /\ UNCHANGED <<cache, now, cleared, pool, chain, search, risk>>

\* getHistoricalPrices after the await: an error of axios.get propagates,
\* and so does the TypeError of .map on a missing prices list.
GetHistoricalPricesResume(r, response) ==
    /\ req[r].op = "getHistoricalPrices"
    /\ req[r].pc = "fetching"
    /\ req' = [req EXCEPT ![r] =
            IF ~response.ok
            THEN [@ EXCEPT !.pc = "failed", !.sentAt = 0,
                           !.error = "AxiosError"]
            ELSE IF "prices" \notin DOMAIN response.data
            THEN [@ EXCEPT !.pc = "failed", !.sentAt = 0,
                           !.error = "TypeError", !.data = response.data]
            ELSE [@ EXCEPT !.pc = "returned", !.sentAt = 0,
                           !.data = response.data,
                           !.result = HistoryPrices(response.data.prices)]]
    /\ UNCHANGED <<cache, now, cleared, pool, chain, search, risk>>

(* getCacheStats *)

RECURSIVE SortedKeys(_)
\* The keys of a set, each once. The Map lists them in the order of their
\* insertion, which the model does not keep: they are listed in the order
\* of the string comparison.
SortedKeys(keys) ==
    IF keys = {} THEN <<>>
    ELSE LET first == CHOOSE k \in keys :
                         \A j \in keys \ {k} : StrLess(k, j)
         IN  <<first>> \o SortedKeys(keys \ {first})

\* { size: this.cache.size, entries: Array.from(this.cache.keys()) }
getCacheStats(c) ==
    [size |-> Cardinality(DOMAIN c), entries |-> SortedKeys(DOMAIN c)]

\* Mutant of CacheAfterStats: the expired entries are evicted.
CacheAfterStatsEvict(c, t) ==
    [k \in {j \in DOMAIN c : t - c[j].timestamp < cacheTTL} |-> c[k]]

\* The cache after getCacheStats: the method only reads size and keys.
CacheAfterStats(c, t) == c

\* getCacheStats: a synchronous call; sentAt keeps the time of the call.
GetCacheStats(r) ==
    /\ req[r].pc = "idle"
    /\ req' = [req EXCEPT ![r] =
            [Idle EXCEPT !.op = "getCacheStats", !.pc = "returned",
                         !.sentAt = now, !.result = getCacheStats(cache)]]
    /\ cache' = CacheAfterStats(cache, now)
    /\ UNCHANGED <<now, cleared, pool, chain, search, risk>>

(* the rest of the price cache *)

\* Mutant of ClearCache: the entries that have not expired are kept.
ClearCacheExpired ==
    /\ cache' = [k \in {j \in DOMAIN cache :
                            now - cache[j].timestamp < cacheTTL} |-> cache[k]]
    /\ cleared' = TRUE
    /\ UNCHANGED <<now, req, pool, chain, search, risk>>

\* clearCache: this.cache.clear()
ClearCache ==
    /\ cache' = EmptyMap
    /\ cleared' = TRUE
    /\ UNCHANGED <<now, req, pool, chain, search, risk>>

\* The route handler answers (res.json, or status 500 with the message of
\* the error) and the request is over.
Respond(r) ==
    /\ req[r].pc \in {"returned", "failed"}
    /\ req' = [req EXCEPT ![r] = Idle]
    /\ UNCHANGED <<cache, now, cleared, pool, chain, search, risk>>

\* Time passes.
Tick ==
    /\ now + TickMs <= MaxTime
    /\ now' = now + TickMs
    /\ UNCHANGED <<cache, req, cleared, pool, chain, search, risk>>

---------------------------------------------------------------------------
(* The price cache under concurrent requests *)

ETH == <<"E","T","H">>

eth == <<"e","t","h">>

ethereum == <<"e","t","h","e","r","e","u","m">>

USDC == <<"U","S","D","C">>

\* A symbol the mapping table does not list.
Sol == <<"S","o","l">>

\* Symbols that getPrice is called with.
PriceSymbols == {ETH, eth, ethereum}

\* Symbol lists that getBatchPrices is called with while getPrice runs.
CacheBatchInputs == {<<ETH, eth>>}

NoPool == [pc |-> "none"]

\* No chain is consulted.
NoChain == [latest |-> 0]

NoSearch == [pc |-> "none"]

NoRisk == [pc |-> "none"]

Init ==
    /\ cache = EmptyMap
    /\ now = 0
    /\ req = [r \in Requests |-> Idle]
    /\ cleared = FALSE
    /\ pool = NoPool
    /\ chain = NoChain
    /\ search = NoSearch
    /\ risk = NoRisk

Next ==
    \/ \E r \in Requests, s \in PriceSymbols : GetPriceStart(r, s)
    \/ \E r \in Requests :
          \E rsp \in Responses(req[r].coinIds, TRUE) : GetPriceResume(r, rsp)
    \/ \E r \in Requests, l \in CacheBatchInputs : GetBatchPricesStart(r, l)
    \/ \E r \in Requests :
          \E rsp \in Responses(req[r].coinIds, FALSE) :
              GetBatchPricesResume(r, rsp)
    \/ ClearCache
    \/ \E r \in Requests : Respond(r)
    \/ Tick

Spec == Init /\ [][Next]_vars

---------------------------------------------------------------------------
(* getBatchPrices on its own. Batch calls share no state with each other   *)
(* or with the cache, so one call at a time is followed, over every symbol *)
(* list of up to MaxBatch symbols.                                         *)

BatchSymbols == {ETH, eth, USDC, Sol}

BatchInputs == UNION {[1..n -> BatchSymbols] : n \in 0..MaxBatch}

NextBatch ==
    \/ \E l \in BatchInputs : GetBatchPricesStart(1, l)
    \/ \E rsp \in Responses(req[1].coinIds, FALSE) :
          GetBatchPricesResume(1, rsp)
    \/ Respond(1)

SpecBatch == Init /\ [][NextBatch]_vars

---------------------------------------------------------------------------
(* getHistoricalPrices next to a getPrice call that fills the cache: slot 1 *)
(* runs getPrice, slot 2 getHistoricalPrices.                              *)

\* The (symbol, days) pairs getHistoricalPrices is called with: 7 is the
\* default of days.
HistoryInputs == {<<ETH, 7>>, <<Sol, 1>>}

NextHistory ==
    \/ GetPriceStart(1, ETH)
    \/ \E rsp \in Responses(req[1].coinIds, TRUE) : GetPriceResume(1, rsp)
    \/ \E input \in HistoryInputs :
          GetHistoricalPricesStart(2, input[1], input[2])
    \/ \E rsp \in ChartResponses :
          GetHistoricalPricesResume(2, rsp)
    \/ \E r \in {1, 2} : Respond(r)

SpecHistory == Init /\ [][NextHistory]_vars

---------------------------------------------------------------------------
(* clearCache and getCacheStats next to the calls that fill the cache:     *)
(* slot 1 runs getPrice and getBatchPrices, slot 2 getCacheStats.          *)

NextStats ==
    \/ \E s \in PriceSymbols : GetPriceStart(1, s)
    \/ \E rsp \in Responses(req[1].coinIds, TRUE) : GetPriceResume(1, rsp)
    \/ \E l \in CacheBatchInputs : GetBatchPricesStart(1, l)
    \/ \E rsp \in Responses(req[1].coinIds, FALSE) :
          GetBatchPricesResume(1, rsp)
    \/ ClearCache
    \/ GetCacheStats(2)
    \/ \E r \in {1, 2} : Respond(r)
    \/ Tick

SpecStats == Init /\ [][NextStats]_vars

---------------------------------------------------------------------------
(* computePoolAddress as a pure function: the inputs are drawn in the      *)
(* initial state and one step evaluates it on them in both orders.         *)

\* The digits token addresses are written with here, in both cases.
AddrChars == {"0", "1", "a", "A", "f", "F"}

TokenAddresses == {<<"0", "x">> \o d : d \in [1..AddrDigits -> AddrChars]}

FeeTiers == {500, 3000}

InitPool ==
    /\ cache = EmptyMap
    /\ now = 0
    /\ req = [r \in Requests |-> Idle]
    /\ cleared = FALSE
    /\ chain = NoChain
    /\ search = NoSearch
    /\ risk = NoRisk
    /\ \E a \in TokenAddresses, b \in TokenAddresses, f \in FeeTiers :
          pool = [pc |-> "input", token0 |-> a, token1 |-> b, fee |-> f]

ComputePoolAddress ==
    /\ pool.pc = "input"
    /\ pool' = [pc |-> "done", token0 |-> pool.token0,
                token1 |-> pool.token1, fee |-> pool.fee,
                ab |-> computePoolAddress(pool.token0, pool.token1, pool.fee),
                ba |-> computePoolAddress(pool.token1, pool.token0, pool.fee)]
    /\ UNCHANGED <<cache, now, req, cleared, chain, search, risk>>

NextPool == ComputePoolAddress

SpecPool == InitPool /\ [][NextPool]_vars

---------------------------------------------------------------------------
(* calculatePrice as a pure function: two square-root prices a <= b and    *)
(* the decimals of the two tokens are drawn in the initial state and one   *)
(* step evaluates the conversion on both prices.                           *)

\* The square root of Q96.
Q48 == pow(BigFrom(2), 48)

\* Square-root prices around the fixed-point unit and around its root.
SqrtPrices ==
    {add(add(mul(BigFrom(h), Q96), mul(BigFrom(m), Q48)), BigFrom(l)) :
        h \in 0..MaxMantissa, m \in 0..MaxMantissa, l \in 0..1}

\* The decimals of the tokens the repository lists: USDC and USDT have 6,
\* DAI and ETH 18.
TokenDecimals == {6, 18}

InitPrice ==
    /\ cache = EmptyMap
    /\ now = 0
    /\ req = [r \in Requests |-> Idle]
    /\ cleared = FALSE
    /\ chain = NoChain
    /\ search = NoSearch
    /\ risk = NoRisk
    /\ \E a \in SqrtPrices, b \in SqrtPrices :
       \E d0 \in TokenDecimals, d1 \in TokenDecimals :
          /\ ~lt(b, a)
          /\ pool = [pc |-> "sqrtPrice", a |-> a, b |-> b,
                     token0Decimals |-> d0, token1Decimals |-> d1]

CalculatePrice ==
    /\ pool.pc = "sqrtPrice"
    /\ pool' = [pc |-> "price", a |-> pool.a, b |-> pool.b,
                token0Decimals |-> pool.token0Decimals,
                token1Decimals |-> pool.token1Decimals,
                priceA |-> calculatePrice(pool.a, pool.token0Decimals,
                                          pool.token1Decimals),
                priceB |-> calculatePrice(pool.b, pool.token0Decimals,
                                          pool.token1Decimals)]
    /\ UNCHANGED <<cache, now, req, cleared, chain, search, risk>>

NextPrice == CalculatePrice

SpecPrice == InitPrice /\ [][NextPrice]_vars

---------------------------------------------------------------------------
(* getPoolInfo and calculateLiquidityAPY: the call and what the chain      *)
(* holds for the pool are drawn in the initial state.                      *)

\* Two token addresses, of AddrDigits digits.
TokenA == <<"0", "x">> \o [i \in 1..AddrDigits |-> "a"]

TokenB == <<"0", "x">> \o [i \in 1..AddrDigits |-> "F"]

PoolTokens == {TokenA, TokenB}

\* The pool address the APY route is called with.
PoolAddressArg == <<"0", "x">> \o [i \in 1..AddrDigits |-> "c"]

PoolTicks == (0 - MaxTick)..MaxTick

\* The liquidity of the pool: none, or some.
Liquidities == {0, 1095}

PoolCalls ==
    {PoolCall("getPoolInfo", a, b, Num(f), 0, 0) :
        a \in PoolTokens, b \in PoolTokens, f \in FeeTiers}
    \cup
    {PoolCall("calculateLiquidityAPY", PoolAddressArg, UndefinedString,
              Undefined, lower, upper) :
        lower \in PoolTicks, upper \in PoolTicks}

InitUniswap ==
    /\ cache = EmptyMap
    /\ now = 0
    /\ req = [r \in Requests |-> Idle]
    /\ cleared = FALSE
    /\ search = NoSearch
    /\ risk = NoRisk
    /\ pool \in PoolCalls
    /\ \E t \in PoolTicks, l \in Liquidities :
          chain = [latest |-> 0,
                   slot0 |-> [sqrtPriceX96 |-> Q96, tick |-> t,
                              observationIndex |-> 0,
                              observationCardinality |-> 1],
                   liquidity |-> BigFrom(l),
                   token0 |-> TokenB, token1 |-> TokenA,
                   fee |-> 3000]

NextUniswap ==
    \/ GetPoolInfoStart
    \/ CalculateLiquidityAPYStart
    \/ \E name \in ReadNames, ok \in BOOLEAN : ReadSettles(name, ok)

SpecUniswap == InitUniswap /\ [][NextUniswap]_vars

---------------------------------------------------------------------------
(* calculateRiskMetrics: the computation on the list of lending positions. *)
(* The protocol integrations of the repository are placeholders that       *)
(* return no positions; the lists drawn here are those an integration can  *)
(* return, the empty list among them.                                      *)

PositionTypes == {"collateral", "debt", "supply"}

\* The liquidation threshold of a collateral position: 80%.
Thresholds == {Fraction(4, 5)}

Positions ==
    {[type |-> t, value |-> Num(v), liquidationThreshold |-> th] :
        t \in PositionTypes, v \in 0..MaxValue, th \in Thresholds}

PositionLists == UNION {[1..n -> Positions] : n \in 0..MaxPositions}

InitRisk ==
    /\ cache = EmptyMap
    /\ now = 0
    /\ req = [r \in Requests |-> Idle]
    /\ cleared = FALSE
    /\ pool = NoPool
    /\ chain = NoChain
    /\ search = NoSearch
    /\ \E a \in PoolTokens :
          risk = [pc |-> "called", address |-> a, positions |-> <<>>,
                  result |-> Undefined]

NextRisk ==
    \/ CalculateRiskMetricsStart
    \/ \E l \in PositionLists : CalculateRiskMetricsResume(l)

SpecRisk == InitRisk /\ [][NextRisk]_vars

---------------------------------------------------------------------------
(* getContractCreationBlock on a chain of latest block number latest,     *)
(* where the address has no code before block created and has code from   *)
(* it on; created = latest + 1 is the address without code up to latest.  *)

Answers ==
    {[ok |-> o, code |-> c] : o \in BOOLEAN, c \in {EmptyCode, Bytecode}}

InitSearch ==
    /\ cache = EmptyMap
    /\ now = 0
    /\ req = [r \in Requests |-> Idle]
    /\ cleared = FALSE
    /\ pool = NoPool
    /\ risk = NoRisk
    /\ \E n \in 0..MaxBlock : \E c \in 0..(n + 1) :
          chain = [latest |-> n, created |-> c]
    /\ search = [pc |-> "called", low |-> 0, high |-> 0, mid |-> 0,
                 queries |-> {}, result |-> Undefined]

NextSearch ==
    \/ GetContractCreationBlockStart
    \/ \E ok \in BOOLEAN : GetBlockNumberSettles(ok)
    \/ \E a \in Answers : GetCodeSettles(a)
    \/ \E a \in Answers : GetPrevCodeSettles(a)

SpecSearch == InitSearch /\ [][NextSearch]_vars

---------------------------------------------------------------------------
(* Properties of the price cache (specification Spec) *)

PriceEthKey == <<"p","r","i","c","e","_","e","t","h">>

PriceEthereumKey == <<"p","r","i","c","e","_","e","t","h","e","r","e","u","m">>

\* The cache key the program text gives for the symbols getPrice is called
\* with here: ETH and eth share price_eth, ethereum has price_ethereum.
KeyOf(tokenSymbol) ==
    IF tokenSymbol \in {ETH, eth} THEN PriceEthKey ELSE PriceEthereumKey

\* Request r starts a getPrice call in this step.
StartsGetPrice(r) == req[r].pc = "idle" /\ req'[r].op = "getPrice"

\* Request r, a getPrice call, gets its upstream answer in this step.
ResumesGetPrice(r) ==
    /\ req[r].op = "getPrice"
    /\ req[r].pc = "fetching"
    /\ req'[r].pc # "fetching"

\* Some request sends an upstream request in this step.
SendsUpstream(r) == req[r].pc # "fetching" /\ req'[r].pc = "fetching"

\* C1: a getPrice(s) call made less than cacheTTL ms after a record for s was
\* cached (and not cleared since) returns that cached record and sends no
\* upstream request; the record was cached by a call that fetched exactly
\* once, so the two calls together make one upstream call.
C1_SecondCallWithinTTLIsCached ==
    [][\A r \in Requests :
        /\ ( /\ StartsGetPrice(r)
             /\ KeyOf(req'[r].arg) \in DOMAIN cache
             /\ now - cache[KeyOf(req'[r].arg)].timestamp < cacheTTL )
           => /\ req'[r].pc = "returned"
              /\ req'[r].result = cache[KeyOf(req'[r].arg)].price
              /\ req'[r].fetches = 0
              /\ \A q \in Requests : ~SendsUpstream(q)
              /\ cache' = cache
        /\ (ResumesGetPrice(r) /\ cache' # cache) => req[r].fetches = 1
      ]_vars

\* C1 witness: a call was answered from the cache, some time after the
\* record was stored and within its TTL.
C1_Witness ==
    \E r \in Requests :
        /\ req[r].op = "getPrice"
        /\ req[r].pc = "returned"
        /\ req[r].fetches = 0
        /\ KeyOf(req[r].arg) \in DOMAIN cache
        /\ req[r].result = cache[KeyOf(req[r].arg)].price
        /\ now - cache[KeyOf(req[r].arg)].timestamp > 0
        /\ now - cache[KeyOf(req[r].arg)].timestamp < cacheTTL

\* C2 (as claimed): the first getPrice call that starts after clearCache()
\* sends an upstream request, whatever was in flight when clearCache ran.
C2_NextGetPriceAfterClearFetches ==
    [][\A r \in Requests :
        (cleared /\ StartsGetPrice(r)) => req'[r].pc = "fetching"]_vars

\* C3: a cached record is live while now - timestamp < cacheTTL and absent
\* from now - timestamp = cacheTTL on: a call that finds it live returns it,
\* a call that finds it expired fetches, and the record it fetches replaces
\* the entry, stamped with the time of the write.
C3_ValidForExactlyTTL ==
    [][\A r \in Requests :
        /\ ( /\ StartsGetPrice(r)
             /\ KeyOf(req'[r].arg) \in DOMAIN cache )
           => IF now - cache[KeyOf(req'[r].arg)].timestamp < cacheTTL
              THEN /\ req'[r].pc = "returned"
                   /\ req'[r].result = cache[KeyOf(req'[r].arg)].price
              ELSE /\ req'[r].pc = "fetching"
                   /\ req'[r].fetches = 1
        /\ (ResumesGetPrice(r) /\ req'[r].pc = "returned")
           => /\ KeyOf(req[r].arg) \in DOMAIN cache'
              /\ cache'[KeyOf(req[r].arg)] =
                    [price |-> req'[r].result, timestamp |-> now]
      ]_vars

\* C3 witness: a call is fetching because, when it checked, the entry of its
\* key was exactly cacheTTL ms old.
C3_Witness ==
    \E r \in Requests :
        /\ req[r].op = "getPrice"
        /\ req[r].pc = "fetching"
        /\ req[r].sentAt = now
        /\ KeyOf(req[r].arg) \in DOMAIN cache
        /\ now - cache[KeyOf(req[r].arg)].timestamp = cacheTTL

\* C4: when the fetch of a getPrice call fails (axios throws, or the answer
\* has no entry for the identifier), the call fails with that error after
\* exactly one upstream call and no retry, and neither its cache check nor
\* its failure changes the cache.
C4_FailedFetchLeavesCache ==
    [][\A r \in Requests :
        /\ (ResumesGetPrice(r) /\ req'[r].pc # "returned")
           => /\ req'[r].pc = "failed"
              /\ req'[r].error \in {"AxiosError", "TypeError"}
              /\ req'[r].error = "TypeError"
                    => req'[r].coinIds[1] \notin DOMAIN req'[r].data
              /\ req'[r].fetches = 1
              /\ cache' = cache
        /\ (StartsGetPrice(r) /\ req'[r].pc = "fetching") => cache' = cache
        /\ (req[r].op = "getPrice" /\ req[r].pc = "failed")
           => req'[r].pc \in {"failed", "idle"}
      ]_vars

\* C4 witness: a call has failed while an (expired) entry of its key is in
\* the cache.
C4_Witness ==
    \E r \in Requests :
        /\ req[r].op = "getPrice"
        /\ req[r].pc = "failed"
        /\ req[r].error = "TypeError"
        /\ KeyOf(req[r].arg) \in DOMAIN cache
        /\ now - cache[KeyOf(req[r].arg)].timestamp >= cacheTTL

\* C5: the cache key is price_ followed by the lowercased symbol: ETH and eth
\* read and write the one entry price_eth, ethereum reads and writes
\* price_ethereum, although all three resolve to the identifier ethereum.
C5_KeyedByLowercasedSymbol ==
    [][\A r \in Requests :
        /\ StartsGetPrice(r)
           => ( req'[r].pc = "returned"
                  <=> /\ KeyOf(req'[r].arg) \in DOMAIN cache
                      /\ now - cache[KeyOf(req'[r].arg)].timestamp < cacheTTL )
        /\ (ResumesGetPrice(r) /\ req'[r].pc = "returned")
           => /\ DOMAIN cache' = DOMAIN cache \cup {KeyOf(req[r].arg)}
              /\ \A k \in DOMAIN cache :
                    k # KeyOf(req[r].arg) => cache'[k] = cache[k]
        /\ (StartsGetPrice(r) /\ req'[r].pc = "fetching")
           => req'[r].ids = ethereum
      ]_vars

\* C5 witness: a call for ETH has fetched and written price_eth, a call for
\* eth is answered from price_eth without a fetch, and price_ethereum is a
\* second entry, with another record.
C5_Witness ==
    \E r \in Requests, q \in Requests :
        /\ req[r].op = "getPrice" /\ req[r].arg = ETH
        /\ req[r].pc = "returned" /\ req[r].fetches = 1
        /\ req[q].op = "getPrice" /\ req[q].arg = eth
        /\ req[q].pc = "returned" /\ req[q].fetches = 0
        /\ DOMAIN cache = {PriceEthKey, PriceEthereumKey}
        /\ cache[PriceEthKey].price = req[r].result
        /\ cache[PriceEthKey].price = req[q].result
        /\ cache[PriceEthereumKey].price # cache[PriceEthKey].price

\* C6: no step of a getBatchPrices call changes the cache, and the call
\* sends its upstream request whatever the cache holds.
C6_BatchBypassesCache ==
    [][\A r \in Requests :
        /\ ( /\ req[r] # req'[r]
             /\ "getBatchPrices" \in {req[r].op, req'[r].op} )
           => cache' = cache
        /\ (req[r].pc = "idle" /\ req'[r].op = "getBatchPrices")
           => /\ req'[r].pc = "fetching"
              /\ req'[r].fetches = 1
      ]_vars

\* C6 witness: a batch call has sent its request at a time when every symbol
\* it asks for has a live cache entry.
C6_Witness ==
    \E r \in Requests :
        /\ req[r].op = "getBatchPrices"
        /\ req[r].pc = "fetching"
        /\ req[r].sentAt = now
        /\ Len(req[r].arg) > 0
        /\ \A i \in 1..Len(req[r].arg) :
              /\ KeyOf(req[r].arg[i]) \in DOMAIN cache
              /\ now - cache[KeyOf(req[r].arg[i])].timestamp < cacheTTL

\* C9: a step in which a getPrice call returns its fetched record leaves the
\* key of that call holding exactly that record, stamped now, whatever the
\* key held before, and every other key untouched; any other step leaves
\* the cache as it is or empties it (clearCache).
C9_PerKeyLastWriteWins ==
    [][/\ \A r \in Requests :
            (ResumesGetPrice(r) /\ req'[r].pc = "returned")
            => /\ DOMAIN cache' = DOMAIN cache \cup {KeyOf(req[r].arg)}
               /\ cache'[KeyOf(req[r].arg)] =
                     [price |-> req'[r].result, timestamp |-> now]
               /\ \A k \in DOMAIN cache :
                     k # KeyOf(req[r].arg) => cache'[k] = cache[k]
       /\ (\A r \in Requests :
                ~(ResumesGetPrice(r) /\ req'[r].pc = "returned"))
            => \/ cache' = cache
               \/ cache' = EmptyMap /\ cleared'
      ]_vars

\* C9 witness: two concurrent calls for the same key have both written, with
\* different records; the key holds one of them and the other key its own.
C9_Witness ==
    /\ req[1].op = "getPrice" /\ req[1].pc = "returned" /\ req[1].fetches = 1
    /\ req[2].op = "getPrice" /\ req[2].pc = "returned" /\ req[2].fetches = 1
    /\ KeyOf(req[1].arg) = KeyOf(req[2].arg)
    /\ req[1].result # req[2].result
    /\ DOMAIN cache = {PriceEthKey, PriceEthereumKey}
    /\ cache[KeyOf(req[1].arg)].price = req[2].result

---------------------------------------------------------------------------
(* Properties of getBatchPrices (specification SpecBatch) *)

usdcoin == <<"u","s","d","-","c","o","i","n">>

\* The upstream identifier of the symbols used here: the one the mapping
\* table lists for ETH and USDC, the lowercased symbol for Sol.
IdOf(tokenSymbol) ==
    IF tokenSymbol = USDC THEN usdcoin
    ELSE IF tokenSymbol = Sol THEN <<"s","o","l">>
    ELSE ethereum

RECURSIVE SplitFrom(_, _, _, _)
\* The pieces of str between commas, from position i on; cur is the piece
\* being read and acc the pieces read.
SplitFrom(str, i, cur, acc) ==
    IF i > Len(str) THEN Append(acc, cur)
    ELSE IF str[i] = ","
    THEN SplitFrom(str, i + 1, <<>>, Append(acc, cur))
    ELSE SplitFrom(str, i + 1, Append(cur, str[i]), acc)

\* The identifiers listed in an ids parameter.
SentIds(ids) == SplitFrom(ids, 1, <<>>, <<>>)

\* C7 (as claimed): a batch call makes one upstream call, and the ids it
\* sends are the distinct identifiers of the symbols, each listed once.
C7_BatchSendsDistinctIds ==
    \A r \in Requests :
        (req[r].op = "getBatchPrices" /\ Len(req[r].arg) > 0)
        => /\ req[r].fetches = 1
           /\ Range(SentIds(req[r].ids)) =
                 {IdOf(req[r].arg[i]) : i \in 1..Len(req[r].arg)}
           /\ Len(SentIds(req[r].ids)) =
                 Cardinality(Range(SentIds(req[r].ids)))

\* C7 (amended): a batch call makes one upstream call, and the ids it sends
\* list the identifier of every requested symbol, in the order of the
\* symbols, an identifier being repeated when symbols share it.
C7_BatchSendsOneIdPerSymbol ==
    \A r \in Requests :
        req[r].op = "getBatchPrices"
        => /\ req[r].fetches = 1
           /\ Len(req[r].arg) = 0 => req[r].ids = <<>>
           /\ Len(req[r].arg) > 0
              => /\ Len(SentIds(req[r].ids)) = Len(req[r].arg)
                 /\ \A i \in 1..Len(req[r].arg) :
                       SentIds(req[r].ids)[i] = IdOf(req[r].arg[i])

\* C7 witness: the request for ETH, eth, USDC is out, and lists ethereum
\* twice.
C7_Witness ==
    /\ req[1].op = "getBatchPrices"
    /\ req[1].pc = "fetching"
    /\ req[1].arg = <<ETH, eth, USDC>>
    /\ SentIds(req[1].ids) = <<ethereum, ethereum, usdcoin>>

\* C8: the result of a batch call has exactly the requested symbols, as
\* spelled, as its keys; each maps to the upstream entry of its identifier,
\* or to undefined when the answer has none; the call fails only when
\* axios throws.
C8_BatchResultPerSymbol ==
    \A r \in Requests :
        req[r].op = "getBatchPrices"
        => /\ req[r].pc = "returned"
              => /\ DOMAIN req[r].result = Range(req[r].arg)
                 /\ \A s \in Range(req[r].arg) :
                       req[r].result[s] =
                          IF IdOf(s) \in DOMAIN req[r].data
                          THEN req[r].data[IdOf(s)]
                          ELSE Undefined
           /\ req[r].pc = "failed" => req[r].error = "AxiosError"

\* C8 witness: ETH and eth both got the entry of ethereum, and USDC, whose
\* identifier the answer lacks, maps to undefined in a call that returned.
C8_Witness ==
    /\ req[1].op = "getBatchPrices"
    /\ req[1].pc = "returned"
    /\ req[1].arg = <<ETH, eth, USDC>>
    /\ DOMAIN req[1].data = {ethereum}
    /\ req[1].result[ETH] = req[1].data[ethereum]
    /\ req[1].result[eth] = req[1].data[ethereum]
    /\ req[1].result[USDC] = Undefined

---------------------------------------------------------------------------
(* Properties of computePoolAddress (specification SpecPool) *)

\* C10: computePoolAddress gives the same address for (tokenA, tokenB, fee)
\* and (tokenB, tokenA, fee), the salt being derived from the two addresses
\* in ascending order whatever the case of their digits.
C10_PoolAddressOrderIndependent ==
    pool.pc = "done"
    => /\ pool.ab = pool.ba
       /\ pool.ab.create2[2].keccak256[1] <= pool.ab.create2[2].keccak256[2]
       /\ pool.ab.create2[2].keccak256[3] = pool.fee

\* The hex digits of a token address, after its 0x.
Digits(token) == SubSeq(token, 3, Len(token))

\* C10 witness: the address was computed for a pair given in descending
\* order, the first address written in capitals and the second in small
\* letters.
C10_Witness ==
    /\ pool.pc = "done"
    /\ AbiAddress(pool.token0) > AbiAddress(pool.token1)
    /\ Digits(pool.token0) = toUpperCase(Digits(pool.token0))
    /\ Digits(pool.token0) # toLowerCase(Digits(pool.token0))
    /\ Digits(pool.token1) = toLowerCase(Digits(pool.token1))
    /\ Digits(pool.token1) # toUpperCase(Digits(pool.token1))
    /\ pool.ab = pool.ba

---------------------------------------------------------------------------
(* Properties of calculatePrice (specification SpecPrice) *)

\* C11 (as claimed): for sqrtPriceX96 = 2^96 and 18 decimals on both sides
\* the price conversion yields 1.0.
C11_UnitSqrtPriceGivesOne ==
    ( /\ pool.pc = "price"
      /\ pool.a = Q96
      /\ pool.token0Decimals = 18
      /\ pool.token1Decimals = 18 )
    => pool.priceA = <<"1", ".", "0">>

\* The digit a character denotes.
DigitOf(ch) == (CHOOSE k \in 1..10 : DigitChars[k] = ch) - 1

\* The number of units of 10^-decimals that a decimal string denotes (what
\* ethers.utils.parseUnits gives).
UnitsOf(str, decimals) ==
    LET point == IF \E i \in 1..Len(str) : str[i] = "."
                 THEN CHOOSE i \in 1..Len(str) : str[i] = "."
                 ELSE Len(str) + 1
        whole == SubSeq(str, 1, point - 1)
        fraction == SubSeq(str, point + 1, Len(str))
        padded == whole \o fraction
                  \o [i \in 1..(decimals - Len(fraction)) |-> "0"]
    IN  Trim([i \in 1..Len(padded) |-> DigitOf(padded[Len(padded) + 1 - i])])

\* C12 (as claimed): for fixed decimals, a < b gives price(a) < price(b).
C12_PriceStrictlyIncreasing ==
    (pool.pc = "price" /\ lt(pool.a, pool.b))
    => lt(UnitsOf(pool.priceA, pool.token1Decimals),
          UnitsOf(pool.priceB, pool.token1Decimals))

\* C12 (amended): for fixed decimals the price conversion never decreases:
\* a < b gives price(a) <= price(b), and equal prices for equal inputs.
C12_PriceNonDecreasing ==
    pool.pc = "price"
    => /\ lt(pool.a, pool.b)
          => ~lt(UnitsOf(pool.priceB, pool.token1Decimals),
                 UnitsOf(pool.priceA, pool.token1Decimals))
       /\ pool.a = pool.b => pool.priceA = pool.priceB

\* C12 witness: two different square-root prices above the root of the unit
\* whose prices are the same non-zero number, and so not increasing.
C12_Witness ==
    /\ pool.pc = "price"
    /\ lt(pool.a, pool.b)
    /\ pool.priceA = pool.priceB
    /\ Len(UnitsOf(pool.priceA, pool.token1Decimals)) > 0

---------------------------------------------------------------------------
(* Properties of getPoolInfo and calculateLiquidityAPY (specification      *)
(* SpecUniswap)                                                            *)

\* The calculateLiquidityAPY call is over.
ApyDone ==
    /\ pool.op = "calculateLiquidityAPY"
    /\ pool.pc \in {"returned", "failed"}

\* The tick of the pool lies within the bounds of the position.
TickInRange ==
    /\ chain.slot0.tick >= pool.positionTickLower
    /\ chain.slot0.tick <= pool.positionTickUpper

\* C13 (as claimed): when the tick of the pool is below tickLower or above
\* tickUpper, the APY estimate returns exactly {apy: 0, inRange: false}.
C13_ApyZeroWhenOutOfRange ==
    (ApyDone /\ ~TickInRange)
    => /\ pool.pc = "returned"
       /\ pool.result = [apy |-> Num(0), inRange |-> FALSE]

\* C14 (as claimed): when the tick of the pool is within the bounds, the APY
\* estimate returns inRange = true, fees24h = volume24h * (fee / 1000000)
\* and apy = fees24h * 365 / liquidity * 100, for the fee and the liquidity
\* of the pool.
C14_ApyInRangeFormula ==
    (ApyDone /\ TickInRange)
    => /\ pool.pc = "returned"
       /\ pool.result.inRange = TRUE
       /\ pool.result.volume24h = get24hVolume
       /\ pool.result.fees24h =
             NumMul(get24hVolume, NumDiv(Num(chain.fee), Num(1000000)))
       /\ pool.result.apy =
             NumMul(NumDiv(NumMul(pool.result.fees24h, Num(365)),
                           StringToNumber(toString(chain.liquidity))),
                    Num(100))

\* C15: getPoolInfo computes the pool address and sends each of the four
\* reads once, to that address; it returns the pool state, taken from the
\* four answers, only when all four have resolved, and fails with the error
\* of the first read that rejects, without a result and without a retry.
C15_PoolInfoAfterAllFourReads ==
    pool.op = "getPoolInfo"
    => /\ pool.pc = "called" => \A n \in ReadNames : pool.calls[n] = 0
       /\ pool.pc # "called"
          => /\ \A n \in ReadNames : pool.calls[n] = 1
             /\ pool.address =
                   computePoolAddress(pool.token0Address, pool.token1Address,
                                      pool.fee)
       /\ pool.pc = "reading"
          => /\ \A n \in ReadNames : pool.reads[n] \in {"pending", "ok"}
             /\ \E n \in ReadNames : pool.reads[n] = "pending"
             /\ pool.result = Undefined
       /\ pool.pc = "returned"
          => /\ \A n \in ReadNames : pool.reads[n] = "ok"
             /\ pool.result.address = pool.address
             /\ pool.result.fee = pool.fee
             /\ pool.result.tick = chain.slot0.tick
             /\ pool.result.sqrtPriceX96 = chain.slot0.sqrtPriceX96
             /\ pool.result.liquidity = toString(chain.liquidity)
             /\ pool.result.token0 = chain.token0
             /\ pool.result.token1 = chain.token1
             /\ pool.error = NoError
       /\ pool.pc = "failed"
          => /\ \E n \in ReadNames :
                   pool.reads[n] = "failed" /\ pool.error = ReadError(n)
             /\ pool.result = Undefined

\* C15 witness: three reads have resolved and token0 has rejected; the call
\* has failed with the error of token0 and has no result.
C15_Witness ==
    /\ pool.op = "getPoolInfo"
    /\ pool.pc = "failed"
    /\ pool.error = ReadError("token0")
    /\ pool.reads = [n \in ReadNames |->
                        IF n = "token0" THEN "failed" ELSE "ok"]
    /\ pool.result = Undefined

---------------------------------------------------------------------------
(* Properties of calculateRiskMetrics (specification SpecRisk) *)

RECURSIVE ValueOf(_, _)
\* The sum of the values of the positions of one type.
ValueOf(positions, type) ==
    IF Len(positions) = 0 THEN 0
    ELSE ValueOf(Tail(positions), type)
         + IF positions[1].type = type THEN positions[1].value.num ELSE 0

\* C16: calculateRiskMetrics returns for every list of positions; when the
\* debt positions sum to 0 the collateralizationRatio is Infinity, and when
\* they sum to more it is totalCollateral / totalDebt.
C16_RatioInfiniteOnZeroDebt ==
    /\ risk.pc \in {"none", "called", "awaiting", "returned"}
    /\ risk.pc = "returned"
       => /\ risk.result.totalDebt = Num(ValueOf(risk.positions, "debt"))
          /\ risk.result.totalCollateral =
                Num(ValueOf(risk.positions, "collateral"))
          /\ ValueOf(risk.positions, "debt") = 0
             => risk.result.collateralizationRatio = Infinity
          /\ ValueOf(risk.positions, "debt") > 0
             => risk.result.collateralizationRatio =
                   Fraction(ValueOf(risk.positions, "collateral"),
                            ValueOf(risk.positions, "debt"))

\* C16 witness: the call returned for a list with collateral and no debt,
\* and the ratio is Infinity.
C16_Witness ==
    /\ risk.pc = "returned"
    /\ ValueOf(risk.positions, "collateral") > 0
    /\ ValueOf(risk.positions, "debt") = 0
    /\ risk.result.collateralizationRatio = Infinity

---------------------------------------------------------------------------
(* Properties of getHistoricalPrices (specification SpecHistory) *)

\* C17: a getHistoricalPrices call sends one upstream request whatever the
\* cache holds, none of its steps changes the cache, and when the answer
\* has a prices list the call returns one {timestamp, price} element per
\* pair of the list, in the order of the list.
C17_HistoryOneCallInOrder ==
    [][\A r \in Requests :
        /\ ( /\ req[r] # req'[r]
             /\ "getHistoricalPrices" \in {req[r].op, req'[r].op} )
           => cache' = cache
        /\ (req[r].pc = "idle" /\ req'[r].op = "getHistoricalPrices")
           => /\ req'[r].pc = "fetching"
              /\ req'[r].fetches = 1
        /\ (req[r].op = "getHistoricalPrices" /\ req[r].pc = "fetching")
           => /\ req'[r].fetches = 1
              /\ req'[r].pc = "returned"
                 => /\ Len(req'[r].result) = Len(req'[r].data.prices)
                    /\ \A i \in 1..Len(req'[r].result) :
                          /\ req'[r].result[i].timestamp.date =
                                req'[r].data.prices[i][1]
                          /\ req'[r].result[i].price =
                                req'[r].data.prices[i][2]
      ]_vars

\* C17 witness: while the cache holds the entry of eth, a history call has
\* returned two points whose timestamps upstream sent in descending order.
C17_Witness ==
    /\ PriceEthKey \in DOMAIN cache
    /\ req[2].op = "getHistoricalPrices"
    /\ req[2].pc = "returned"
    /\ Len(req[2].result) = 2
    /\ req[2].result[1].timestamp.date > req[2].result[2].timestamp.date
    /\ req[2].data.prices[1][1] > req[2].data.prices[2][1]

---------------------------------------------------------------------------
(* Properties of clearCache and getCacheStats (specification SpecStats) *)

\* The step is a clearCache call: the only operation that leaves the
\* requests and the clock alone.
ClearCacheStep ==
    /\ req' = req
    /\ now' = now
    /\ cleared'
    /\ (cache' # cache \/ ~cleared)

\* C18: right after a clearCache call the cache has no entry, and
\* getCacheStats reports size 0 and no keys, whatever ran before and
\* whatever is in flight.
C18_EmptyRightAfterClear ==
    [][ClearCacheStep
        => /\ DOMAIN cache' = {}
           /\ getCacheStats(cache') = [size |-> 0, entries |-> <<>>]
      ]_vars

\* C18 witness: a getPrice call that had fetched and stored its record has
\* seen the cache cleared since, and getCacheStats, called now, has reported
\* an empty cache.
C18_Witness ==
    /\ cleared
    /\ DOMAIN cache = {}
    /\ req[1].op = "getPrice" /\ req[1].pc = "returned" /\ req[1].fetches = 1
    /\ req[2].op = "getCacheStats" /\ req[2].sentAt = now /\ now > 0
    /\ req[2].result = [size |-> 0, entries |-> <<>>]

\* C19: only clearCache removes entries; an entry changes only when a
\* getPrice call for its key returns the record it fetched; getCacheStats
\* changes nothing but its own result, which lists every key of the cache,
\* expired or not, once, and counts as many keys as it lists.
C19_LazyEvictionReadOnlyStats ==
    [][/\ (\E k \in DOMAIN cache : k \notin DOMAIN cache')
          => /\ ClearCacheStep
             /\ DOMAIN cache' = {}
       /\ \A k \in DOMAIN cache \cap DOMAIN cache' :
             cache'[k] # cache[k]
             => \E r \in Requests :
                   /\ ResumesGetPrice(r)
                   /\ req'[r].pc = "returned"
                   /\ KeyOf(req[r].arg) = k
       /\ \A r \in Requests :
             (req[r].pc = "idle" /\ req'[r].op = "getCacheStats")
             => /\ cache' = cache
                /\ now' = now
                /\ cleared' = cleared
                /\ \A q \in Requests \ {r} : req'[q] = req[q]
                /\ req'[r].result.size = Len(req'[r].result.entries)
                /\ req'[r].result.size = Cardinality(DOMAIN cache)
                /\ Range(req'[r].result.entries) = DOMAIN cache
      ]_vars

\* C19 witness: getCacheStats, called now, has counted and listed two keys,
\* one of which expired some time ago.
C19_Witness ==
    /\ req[2].op = "getCacheStats"
    /\ req[2].sentAt = now
    /\ req[2].result.size = 2
    /\ \E k \in DOMAIN cache :
          /\ now - cache[k].timestamp > cacheTTL
          /\ k \in Range(req[2].result.entries)

---------------------------------------------------------------------------
(* Properties of getContractCreationBlock (specification SpecSearch) *)

\* C20: getContractCreationBlock asks the provider for the code at blocks
\* of 0..latest only, and when it returns, it returns the first block with
\* code if there is one up to latest, and null otherwise.
C20_ReturnsCreationBlock ==
    /\ search.queries \subseteq 0..chain.latest
    /\ search.pc = "returned"
       => search.result = IF chain.created <= chain.latest
                          THEN [block |-> chain.created]
                          ELSE Null

---------------------------------------------------------------------------
(* Bounded staleness of the price cache (specification Spec) *)

\* C21: every record that getPrice returns from the cache comes from an
\* upstream fetch that completed less than cacheTTL ms before the return.
\* An entry of the cache is written or changed only in the step in which a
\* getPrice call for its key receives its upstream answer; it then holds
\* the record built from that answer, stamped with the time of that step
\* and not with the time the request was sent. No entry is stamped later
\* than the clock. A call answered from the cache returns the record of an
\* entry whose stamp is less than cacheTTL ms old.
C21_BoundedStaleness ==
    [][/\ \A k \in DOMAIN cache : cache[k].timestamp <= now
       /\ \A k \in DOMAIN cache' :
             (k \notin DOMAIN cache \/ cache'[k] # cache[k])
             => \E r \in Requests :
                   /\ ResumesGetPrice(r)
                   /\ req'[r].pc = "returned"
                   /\ req[r].fetches = 1
                   /\ KeyOf(req[r].arg) = k
                   /\ now' = now
                   /\ cache'[k].timestamp = now
                   /\ cache'[k].price = req'[r].result
                   /\ cache'[k].price =
                         FetchedPrice(req'[r].data, req[r].coinIds[1]).price
       /\ \A r \in Requests :
             (StartsGetPrice(r) /\ req'[r].pc = "returned")
             => /\ req'[r].fetches = 0
                /\ KeyOf(req'[r].arg) \in DOMAIN cache
                /\ req'[r].result = cache[KeyOf(req'[r].arg)].price
                /\ now - cache[KeyOf(req'[r].arg)].timestamp < cacheTTL
                /\ now - cache[KeyOf(req'[r].arg)].timestamp >= 0
      ]_vars

\* C21 witness: a call that fetched stored its record at the first tick of
\* the clock, and another call was answered with that record from the
\* cache one tick short of cacheTTL after it was stored.
C21_Witness ==
    \E r, q \in Requests :
        /\ req[q].op = "getPrice" /\ req[q].pc = "returned"
        /\ req[q].fetches = 1
        /\ req[r].op = "getPrice" /\ req[r].pc = "returned"
        /\ req[r].fetches = 0
        /\ KeyOf(req[r].arg) = KeyOf(req[q].arg)
        /\ KeyOf(req[r].arg) \in DOMAIN cache
        /\ req[r].result = req[q].result
        /\ req[r].result = cache[KeyOf(req[r].arg)].price
        /\ cache[KeyOf(req[r].arg)].timestamp = TickMs
        /\ now - cache[KeyOf(req[r].arg)].timestamp = cacheTTL - TickMs

====
